---- MODULE Spec2Model ----
(***************************************************************************)
(* A model of make_doe_json.py: the conversion of the rows of a DoE        *)
(* worksheet into the simulator's nested "agents" document.                *)
(*                                                                         *)
(* Three specifications are defined over the same variables:               *)
(*   SpecDist   calls distribute_across_bases on bounded arguments,        *)
(*   SpecTactic calls build_suppression on bounded rows,                   *)
(*   Spec       runs main(): existence check, read_excel + ffill, the row  *)
(*              loop and the final write.                                  *)
(***************************************************************************)
EXTENDS Integers, Sequences, FiniteSets, TLC

VARIABLES
    pc,             \* position of the running call
    arg_total,      \* distribute_across_bases: argument total
    arg_num_bases,  \* distribute_across_bases: argument num_bases
    ret_counts,     \* distribute_across_bases: returned list
    arg_prefix,     \* build_suppression: <<main_prefix, alt_prefix>>
    arg_row,        \* build_suppression: argument row
    ret_tactic,     \* build_suppression: returned dict
    excel_exists,   \* environment: EXCEL_PATH.exists()
    sheet_ok,       \* environment: pd.read_excel succeeds
    raw_blank,      \* history: per sheet row, was its scenario cell blank as read
    df,             \* main: the data frame after ffill
    idx,            \* main: index of the next row of df.iterrows()
    scenarios,      \* main: the list scenarios
    origin,         \* history: per element of scenarios, the row that appended it
    stderr,         \* messages printed to sys.stderr
    stdout,         \* messages printed to stdout
    out_file,       \* content of OUTPUT_JSON (NotOpened until open(..., "w"))
    writes          \* number of times OUTPUT_JSON was opened for writing

vars == <<pc, arg_total, arg_num_bases, ret_counts, arg_prefix, arg_row,
          ret_tactic, excel_exists, sheet_ok, raw_blank, df, idx, scenarios,
          origin, stderr, stdout, out_file, writes>>

---------------------------------------------------------------------------
(* Bounds of the model.                                                    *)

MaxTotal == 12
MaxBases == 5
MaxThreshold == 1
MaxRows == 2

(* Program constants.                                                      *)

NUM_BASES == 2
AIRCRAFT_FILE == "SUT_series_hybrid.json"
\* SHEET_NAME.split() for SHEET_NAME = "Pyrenees DoE"
SHEET_NAME_TOKENS == <<"Pyrenees", "DoE">>

---------------------------------------------------------------------------
(* Python values.  A cell or a value is a record [k, s, n]:                *)
(*   k = "nan"   a missing cell (NaN)                                      *)
(*   k = "none"  Python None                                               *)
(*   k = "str"   the string s                                              *)
(*   k = "int"   the integer n / 10        (n is a multiple of 10)         *)
(*   k = "float" the float   n / 10        (numbers are kept in tenths)    *)

NaN == [k |-> "nan", s |-> "", n |-> 0]
None == [k |-> "none", s |-> "", n |-> 0]
Str(x) == [k |-> "str", s |-> x, n |-> 0]
IntV(i) == [k |-> "int", s |-> "", n |-> 10 * i]
FloatV(tenths) == [k |-> "float", s |-> "", n |-> tenths]

\* pd.isna(val): NaN and None are missing, strings and numbers are not.
isna(val) == val.k \in {"nan", "none"}

\* bool(val) as used by `if x`, `x or y` and any([...]).
Truthy(val) ==
    CASE val.k = "none" -> FALSE
      [] val.k = "str" -> val.s # ""
      [] val.k \in {"int", "float"} -> val.n # 0
      [] OTHER -> TRUE

\* x or y
PyOr(x, y) == IF Truthy(x) THEN x ELSE y

\* str.strip() on the strings of the model: surrounding blanks are removed.
Strip(s) ==
    CASE s = " " -> ""
      [] s = " water " -> "water"
      [] s = " fuel_low" -> "fuel_low"
      [] OTHER -> s

\* str.lower() on the strings of the model.
Lower(s) ==
    CASE s = "WATER" -> "water"
      [] s = "Vegetation" -> "vegetation"
      [] OTHER -> s

\* str(val): a string is itself, 3 is "3", 2.5 is "2.5", 3.0 is "3.0".
PyStr(val) ==
    CASE val.k = "str" -> val.s
      [] val.k = "int" -> ToString(val.n \div 10)
      [] val.k = "float" -> ToString(val.n \div 10) \o "." \o ToString(val.n % 10)
      [] val.k = "none" -> "None"
      [] OTHER -> "nan"

safe_str(val) ==
    IF isna(val) THEN None
    ELSE LET s == Strip(PyStr(val))
         IN  IF s # "" THEN Str(s) ELSE None

---------------------------------------------------------------------------
(* Lists and dicts.  A list is a sequence; a dict is a function from its   *)
(* keys.                                                                   *)

EmptyDict == <<>>

Put(d, key, val) ==
    [x \in (DOMAIN d) \cup {key} |-> IF x = key THEN val ELSE d[x]]

\* [x] * n
Repeat(x, n) == [i \in 1..(IF n > 0 THEN n ELSE 0) |-> x]

RECURSIVE SumSeq(_)
SumSeq(s) == IF s = <<>> THEN 0 ELSE Head(s) + SumSeq(Tail(s))

---------------------------------------------------------------------------
(* distribute_across_bases                                                 *)

\* for i in range(remainder): counts[i] += 1
RECURSIVE AddSurplus(_, _, _)
AddSurplus(counts, i, remainder) ==
    IF i >= remainder THEN counts
    ELSE AddSurplus([counts EXCEPT ![i + 1] = @ + 1], i + 1, remainder)

\* Variant: the surplus of the division is never handed out.
distribute_drop_surplus(total, num_bases) ==
    IF total >= num_bases
    THEN Repeat(total \div num_bases, num_bases)
    ELSE Repeat(1, total) \o Repeat(0, num_bases - total)

\* Variant: the surplus goes to the last bases instead of the first.
distribute_right_heavy(total, num_bases) ==
    IF total >= num_bases
    THEN LET base == total \div num_bases
             remainder == total % num_bases
         IN  [i \in 1..num_bases |->
                 IF i > num_bases - remainder THEN base + 1 ELSE base]
    ELSE Repeat(0, num_bases - total) \o Repeat(1, total)

distribute_across_bases(total, num_bases) ==
    IF total >= num_bases
    THEN LET base == total \div num_bases
             remainder == total % num_bases
         IN  AddSurplus(Repeat(base, num_bases), 0, remainder)
    ELSE Repeat(1, total) \o Repeat(0, num_bases - total)

---------------------------------------------------------------------------
(* build_suppression                                                       *)

\* row.get(f"{prefix}{field}")
Cell(row, prefix, field) == row[prefix \o field]

\* None if pd.isna(row.get(f"{prefix}threshold", None)) else row.get(...)
threshold_or_none(row, prefix) ==
    IF isna(Cell(row, prefix, "threshold")) THEN None
    ELSE Cell(row, prefix, "threshold")

\* any(values)
PyAny(values) == \E i \in DOMAIN values : Truthy(values[i])

\* main = {}; one key per non-blank main-prefixed field
main_tactic(main_prefix, row) ==
    LET sel == safe_str(Cell(row, main_prefix, "select_poi"))
        trk == safe_str(Cell(row, main_prefix, "track_poi"))
        sup == safe_str(Cell(row, main_prefix, "suppress"))
        m1 == IF Truthy(sel) THEN Put(EmptyDict, "select_poi", sel) ELSE EmptyDict
        m2 == IF Truthy(trk) THEN Put(m1, "track_poi", trk) ELSE m1
    IN  IF Truthy(sup) THEN Put(m2, "suppress", sup) ELSE m2

\* alt_present = any(alt_fields) or main_cond_thresh
alt_present(main_prefix, alt_prefix, row) ==
    LET alt_fields == << safe_str(Cell(row, alt_prefix, "select_poi")),
                         safe_str(Cell(row, alt_prefix, "track_poi")),
                         safe_str(Cell(row, alt_prefix, "suppress")),
                         safe_str(Cell(row, alt_prefix, "change_condition")),
                         threshold_or_none(row, alt_prefix) >>
        main_cond_thresh ==
            PyAny(<< safe_str(Cell(row, main_prefix, "change_condition")),
                     threshold_or_none(row, main_prefix) >>)
    IN  PyAny(alt_fields) \/ main_cond_thresh

\* Variant: the main select_poi is compared as written, without lower().
flip_select_poi_case_sensitive(main) ==
    LET main_sel == IF "select_poi" \in DOMAIN main
                    THEN main["select_poi"].s ELSE ""
    IN  IF main_sel = "vegetation" THEN Str("water")
        ELSE IF main_sel = "water" THEN Str("vegetation")
        ELSE Str("vegetation")

\* main.get("select_poi", "").lower() and the flip
flip_select_poi(main) ==
    LET main_sel == Lower(IF "select_poi" \in DOMAIN main
                          THEN main["select_poi"].s ELSE "")
    IN  IF main_sel = "vegetation" THEN Str("water")
        ELSE IF main_sel = "water" THEN Str("vegetation")
        ELSE Str("vegetation")

\* Variant: a blank alternative track_poi falls back to the main tactic's.
alt_tactic_copy_main(main, alt_prefix, row) ==
    LET sel == safe_str(Cell(row, alt_prefix, "select_poi"))
        trk == safe_str(Cell(row, alt_prefix, "track_poi"))
        sup == safe_str(Cell(row, alt_prefix, "suppress"))
        t1 == Put(EmptyDict, "select_poi",
                  IF Truthy(sel) THEN sel ELSE flip_select_poi(main))
        t2 == Put(t1, "track_poi",
                  PyOr(trk, IF "track_poi" \in DOMAIN main
                            THEN main["track_poi"] ELSE Str("follow_firefront")))
    IN  Put(t2, "suppress", PyOr(sup, Str("direct")))

\* alt_tactic = {}; select_poi, track_poi and suppress with their defaults
alt_tactic(main, alt_prefix, row) ==
    LET sel == safe_str(Cell(row, alt_prefix, "select_poi"))
        trk == safe_str(Cell(row, alt_prefix, "track_poi"))
        sup == safe_str(Cell(row, alt_prefix, "suppress"))
        t1 == Put(EmptyDict, "select_poi",
                  IF Truthy(sel) THEN sel ELSE flip_select_poi(main))
        t2 == Put(t1, "track_poi", PyOr(trk, Str("follow_firefront")))
    IN  Put(t2, "suppress", PyOr(sup, Str("direct")))

\* int(val) if isinstance(val, (float, int)) and float(val).is_integer() else val
collapse_integral(val) ==
    IF val.k \in {"int", "float"} /\ val.n % 10 = 0
    THEN [k |-> "int", s |-> "", n |-> val.n]
    ELSE val

\* Variant: the main-prefixed threshold wins over the alternative-prefixed one.
alt_threshold_main_first(main_prefix, alt_prefix, row) ==
    IF ~isna(Cell(row, main_prefix, "threshold"))
    THEN collapse_integral(Cell(row, main_prefix, "threshold"))
    ELSE IF ~isna(Cell(row, alt_prefix, "threshold"))
    THEN collapse_integral(Cell(row, alt_prefix, "threshold"))
    ELSE None

\* thresh = None; the alternative-prefixed threshold, else the main-prefixed one
alt_threshold(main_prefix, alt_prefix, row) ==
    IF ~isna(Cell(row, alt_prefix, "threshold"))
    THEN collapse_integral(Cell(row, alt_prefix, "threshold"))
    ELSE IF ~isna(Cell(row, main_prefix, "threshold"))
    THEN collapse_integral(Cell(row, main_prefix, "threshold"))
    ELSE None

\* alt_obj = {}; change_condition, threshold, alternative_tactic
alt_object(main, main_prefix, alt_prefix, row) ==
    LET change_cond == PyOr(safe_str(Cell(row, alt_prefix, "change_condition")),
                            safe_str(Cell(row, main_prefix, "change_condition")))
        thresh == alt_threshold(main_prefix, alt_prefix, row)
        o1 == IF Truthy(change_cond)
              THEN Put(EmptyDict, "change_condition", change_cond) ELSE EmptyDict
        o2 == IF thresh # None THEN Put(o1, "threshold", thresh) ELSE o1
    IN  Put(o2, "alternative_tactic", alt_tactic(main, alt_prefix, row))

build_suppression(main_prefix, alt_prefix, row) ==
    LET main == main_tactic(main_prefix, row)
        tactic == Put(EmptyDict, "main", main)
    IN  IF alt_present(main_prefix, alt_prefix, row)
        THEN Put(tactic, "alternative",
                 alt_object(main, main_prefix, alt_prefix, row))
        ELSE tactic

---------------------------------------------------------------------------
(* Values of the variables a specification does not use.                   *)

\* OUTPUT_JSON before any open(OUTPUT_JSON, "w"): no content.
NotOpened == <<>>

IdleDist == /\ arg_total = 0 /\ arg_num_bases = 1 /\ ret_counts = <<>>
IdleTactic == /\ arg_prefix = <<"", "">> /\ arg_row = <<>> /\ ret_tactic = <<>>
IdleMain == /\ excel_exists = FALSE /\ sheet_ok = FALSE /\ raw_blank = <<>>
            /\ df = <<>> /\ idx = 0 /\ scenarios = <<>> /\ origin = <<>>
            /\ stderr = <<>> /\ stdout = <<>> /\ out_file = NotOpened
            /\ writes = 0

distVars == <<arg_total, arg_num_bases, ret_counts>>
tacticVars == <<arg_prefix, arg_row, ret_tactic>>
mainVars == <<excel_exists, sheet_ok, raw_blank, df, idx, scenarios, origin,
              stderr, stdout, out_file, writes>>

---------------------------------------------------------------------------
(* SpecDist: one call of distribute_across_bases(total, num_bases).        *)

InitDist ==
    /\ pc = "dist_call"
    /\ arg_total \in 0..MaxTotal
    /\ arg_num_bases \in 1..MaxBases
    /\ ret_counts = <<>>
    /\ IdleTactic /\ IdleMain

Distribute ==
    /\ pc = "dist_call"
    /\ ret_counts' = distribute_across_bases(arg_total, arg_num_bases)
    /\ pc' = "dist_ret"
    /\ UNCHANGED <<arg_total, arg_num_bases, tacticVars, mainVars>>

NextDist == Distribute

SpecDist == InitDist /\ [][NextDist]_vars

---------------------------------------------------------------------------
(* SpecTactic: one call of build_suppression(main_prefix, alt_prefix, row).*)

Fields == {"select_poi", "track_poi", "suppress", "change_condition", "threshold"}
PrefixPairs == {<<"g1_", "g1a_">>, <<"g2_", "g2a_">>}

\* Cells a worksheet can hold in the columns of a tactic.
MainSelectCells ==
    {NaN, Str(" "), Str("vegetation"), Str("Vegetation"), Str("WATER"), Str("other")}
MainTrackCells == {NaN, Str("circle")}
MainSuppressCells == {NaN, Str("indirect")}
MainCondCells == {NaN, Str("wind_shift"), IntV(0)}
AltSelectCells == {NaN, Str(" "), Str(" water ")}
AltTrackCells == {NaN, Str("loiter")}
AltSuppressCells == {NaN, Str("retardant")}
AltCondCells == {NaN, Str(" fuel_low")}
ThresholdCells ==
    {NaN}
        \cup {IntV(i) : i \in 0..MaxThreshold}
        \cup {FloatV(5 * h) : h \in 0..(2 * MaxThreshold)}

\* The row holding the ten cells of one prefix pair.
TacticRow(pp, ms, mt, mu, mc, mh, as, at, au, ac, ah) ==
    (pp[1] \o "select_poi" :> ms) @@ (pp[1] \o "track_poi" :> mt)
        @@ (pp[1] \o "suppress" :> mu) @@ (pp[1] \o "change_condition" :> mc)
        @@ (pp[1] \o "threshold" :> mh)
        @@ (pp[2] \o "select_poi" :> as) @@ (pp[2] \o "track_poi" :> at)
        @@ (pp[2] \o "suppress" :> au) @@ (pp[2] \o "change_condition" :> ac)
        @@ (pp[2] \o "threshold" :> ah)

InitTactic ==
    /\ pc = "supp_call"
    /\ arg_prefix \in PrefixPairs
    /\ \E ms \in MainSelectCells, mt \in MainTrackCells, mu \in MainSuppressCells,
          mc \in MainCondCells, mh \in ThresholdCells,
          as \in AltSelectCells, at \in AltTrackCells, au \in AltSuppressCells,
          ac \in AltCondCells, ah \in ThresholdCells :
            arg_row = TacticRow(arg_prefix, ms, mt, mu, mc, mh, as, at, au, ac, ah)
    /\ ret_tactic = <<>>
    /\ IdleDist /\ IdleMain

BuildSuppression ==
    /\ pc = "supp_call"
    /\ ret_tactic' = build_suppression(arg_prefix[1], arg_prefix[2], arg_row)
    /\ pc' = "supp_ret"
    /\ UNCHANGED <<arg_prefix, arg_row, distVars, mainVars>>

NextTactic == BuildSuppression

SpecTactic == InitTactic /\ [][NextTactic]_vars

---------------------------------------------------------------------------
(* Spec: one run of main().                                                *)

Prefixes == {"g1_", "g1a_", "g2_", "g2a_"}
TacticColumns == {p \o f : p \in Prefixes, f \in Fields}
Columns == {"scenario", "first group", "second group"} \cup TacticColumns

\* Cells a worksheet can hold in the scenario and count columns.  Counts are
\* whole numbers of aircraft; "TBD" is a text cell that read_excel delivers
\* as a string (it is none of pandas' default NA strings, which arrive as
\* NaN) and that int() cannot convert.
ScenarioCells == {NaN, Str(" "), Str("S1")}
FirstGroupCells == {NaN, Str("TBD"), IntV(0), IntV(3)}
SecondGroupCells == {NaN, IntV(0), FloatV(10)}

\* The tactic cells of a row: all blank, or filled in for both groups.
BlankTactics == [c \in TacticColumns |-> NaN]
FilledTactics ==
    ("g1_select_poi" :> Str("vegetation")) @@ ("g1_track_poi" :> Str("circle"))
        @@ ("g1_change_condition" :> Str("wind_shift"))
        @@ ("g2_select_poi" :> Str("WATER")) @@ ("g2a_threshold" :> FloatV(5))
        @@ BlankTactics
TacticPresets == {BlankTactics, FilledTactics}

SheetRows ==
    {("scenario" :> sc) @@ ("first group" :> fg) @@ ("second group" :> sg) @@ tp :
        sc \in ScenarioCells, fg \in FirstGroupCells,
        sg \in SecondGroupCells, tp \in TacticPresets}

\* The worksheets pd.read_excel can return: up to MaxRows rows.
Sheets == UNION {[1..n -> SheetRows] : n \in 0..MaxRows}

\* df.ffill(): a missing cell takes the nearest preceding valid value of its
\* column, and stays missing when there is none.
RECURSIVE LastValid(_, _, _)
LastValid(sheet, i, c) ==
    IF ~isna(sheet[i][c]) THEN sheet[i][c]
    ELSE IF i = 1 THEN sheet[i][c]
    ELSE LastValid(sheet, i - 1, c)

ffill(sheet) ==
    [i \in DOMAIN sheet |-> [c \in DOMAIN sheet[i] |-> LastValid(sheet, i, c)]]

\* pd.isna(scen) or str(scen).strip() == ""
scenario_blank(row) ==
    isna(row["scenario"]) \/ Strip(PyStr(row["scenario"])) = ""

\* int(x) succeeds on numbers; the text cells of the model ("TBD") are not
\* numerals, and int() raises ValueError on them.
int_raises(val) == val.k = "str"

\* int(x): truncation toward zero.
PyInt(val) ==
    IF val.n >= 0 THEN val.n \div 10 ELSE -((-val.n) \div 10)

\* int(row.get(col, 0)) if pd.notna(row.get(col)) else 0
group_count(row, col) == IF ~isna(row[col]) THEN PyInt(row[col]) ELSE 0

\* the int() of a count column raises
count_raises(row, col) == ~isna(row[col]) /\ int_raises(row[col])

\* the entry appended for one group
group_entry(count, main_prefix, alt_prefix, row) ==
    [file_name |-> AIRCRAFT_FILE,
     agents_per_base |-> distribute_across_bases(count, NUM_BASES),
     suppression_tactic |-> build_suppression(main_prefix, alt_prefix, row)]

\* Variant: a group is given an entry whenever its count is not negative.
row_entries_keep_zero(row) ==
    LET first_count == group_count(row, "first group")
        second_count == group_count(row, "second group")
        e1 == IF first_count >= 0
              THEN <<group_entry(first_count, "g1_", "g1a_", row)>> ELSE <<>>
    IN  IF second_count >= 0
        THEN Append(e1, group_entry(second_count, "g2_", "g2a_", row)) ELSE e1

\* scenario_entries of one row: group 1, then group 2
row_entries(row) ==
    LET first_count == group_count(row, "first group")
        second_count == group_count(row, "second group")
        e1 == IF first_count > 0
              THEN <<group_entry(first_count, "g1_", "g1a_", row)>> ELSE <<>>
    IN  IF second_count > 0
        THEN Append(e1, group_entry(second_count, "g2_", "g2a_", row)) ELSE e1

\* a row whose processing raises: a valid scenario id and a count int() rejects
row_raises(row) ==
    /\ ~scenario_blank(row)
    /\ \/ count_raises(row, "first group")
       \/ count_raises(row, "second group")

output_document(scens) ==
    [default_params_file |-> Head(SHEET_NAME_TOKENS) \o ".json",
     agents |-> scens]

InitMain ==
    /\ pc = "start"
    /\ excel_exists \in BOOLEAN
    /\ sheet_ok \in BOOLEAN
    /\ raw_blank = <<>> /\ df = <<>> /\ idx = 0
    /\ scenarios = <<>> /\ origin = <<>>
    /\ stderr = <<>> /\ stdout = <<>>
    /\ out_file = NotOpened /\ writes = 0
    /\ IdleDist /\ IdleTactic

\* if not EXCEL_PATH.exists(): print(..., file=sys.stderr); return
NotFound ==
    /\ pc = "start" /\ ~excel_exists
    /\ stderr' = Append(stderr, "Excel file not found")
    /\ pc' = "returned"
    /\ UNCHANGED <<excel_exists, sheet_ok, raw_blank, df, idx, scenarios,
                   origin, stdout, out_file, writes, distVars, tacticVars>>

\* except Exception as e: print(..., file=sys.stderr); return
ReadFailed ==
    /\ pc = "start" /\ excel_exists /\ ~sheet_ok
    /\ stderr' = Append(stderr, "Failed to open sheet")
    /\ pc' = "returned"
    /\ UNCHANGED <<excel_exists, sheet_ok, raw_blank, df, idx, scenarios,
                   origin, stdout, out_file, writes, distVars, tacticVars>>

\* df = pd.read_excel(...); df.ffill(inplace=True); scenarios = []
ReadExcel ==
    /\ pc = "start" /\ excel_exists /\ sheet_ok
    /\ \E sheet \in Sheets :
          /\ df' = ffill(sheet)
          /\ raw_blank' = [i \in DOMAIN sheet |-> scenario_blank(sheet[i])]
    /\ scenarios' = <<>>
    /\ idx' = 1
    /\ pc' = "loop"
    /\ UNCHANGED <<excel_exists, sheet_ok, origin, stderr, stdout, out_file,
                   writes, distVars, tacticVars>>

\* one iteration of `for _, row in df.iterrows()`: continue on a blank
\* scenario id
SkipRow ==
    /\ pc = "loop" /\ idx <= Len(df)
    /\ scenario_blank(df[idx])
    /\ idx' = idx + 1
    /\ UNCHANGED <<pc, excel_exists, sheet_ok, raw_blank, df, scenarios,
                   origin, stderr, stdout, out_file, writes, distVars,
                   tacticVars>>

\* one iteration that builds the row's entries and appends them when there
\* are any
BuildRow ==
    /\ pc = "loop" /\ idx <= Len(df)
    /\ ~scenario_blank(df[idx])
    /\ ~row_raises(df[idx])
    /\ LET scenario_entries == row_entries(df[idx])
       IN  IF scenario_entries # <<>>
           THEN /\ scenarios' = Append(scenarios, scenario_entries)
                /\ origin' = Append(origin, idx)
           ELSE UNCHANGED <<scenarios, origin>>
    /\ idx' = idx + 1
    /\ UNCHANGED <<pc, excel_exists, sheet_ok, raw_blank, df, stderr, stdout,
                   out_file, writes, distVars, tacticVars>>

\* Variant: the rows built so far are dumped before the exception leaves.
RowRaises_partial_dump ==
    /\ pc = "loop" /\ idx <= Len(df)
    /\ row_raises(df[idx])
    /\ stderr' = Append(stderr, "Traceback: ValueError")
    /\ out_file' = output_document(scenarios)
    /\ writes' = writes + 1
    /\ pc' = "crashed"
    /\ UNCHANGED <<excel_exists, sheet_ok, raw_blank, df, idx, scenarios,
                   origin, stdout, distVars, tacticVars>>

\* one iteration in which int() raises: the exception leaves main()
RowRaises ==
    /\ pc = "loop" /\ idx <= Len(df)
    /\ row_raises(df[idx])
    /\ stderr' = Append(stderr, "Traceback: ValueError")
    /\ pc' = "crashed"
    /\ UNCHANGED <<excel_exists, sheet_ok, raw_blank, df, idx, scenarios,
                   origin, stdout, out_file, writes, distVars, tacticVars>>

\* output = {...}; with open(OUTPUT_JSON, "w") as f: json.dump(output, f); print
WriteOutput ==
    /\ pc = "loop" /\ idx > Len(df)
    /\ out_file' = output_document(scenarios)
    /\ writes' = writes + 1
    /\ stdout' = Append(stdout, Len(scenarios))
    /\ pc' = "done"
    /\ UNCHANGED <<excel_exists, sheet_ok, raw_blank, df, idx, scenarios,
                   origin, stderr, distVars, tacticVars>>

Next ==
    \/ NotFound
    \/ ReadFailed
    \/ ReadExcel
    \/ SkipRow
    \/ BuildRow
    \/ RowRaises
    \/ WriteOutput

Spec == InitMain /\ [][Next]_vars

---------------------------------------------------------------------------
(* Properties of distribute_across_bases (SpecDist).                       *)

\* C1: for total >= 0 and num_bases >= 1 the result has exactly num_bases
\* entries, each a non-negative integer, and they sum to total.
C1_LengthAndSum ==
    pc = "dist_ret" =>
        /\ Len(ret_counts) = arg_num_bases
        /\ \A i \in DOMAIN ret_counts : ret_counts[i] \in Nat
        /\ SumSeq(ret_counts) = arg_total

C1_Witness ==
    /\ pc = "dist_ret" /\ arg_total = 0 /\ arg_num_bases = 2
    /\ ret_counts = <<0, 0>>

\* C2: left-heavy and near-even.  For total >= num_bases position i (from 0)
\* holds total // num_bases + 1 when i < total % num_bases and
\* total // num_bases otherwise; for total < num_bases the result is total
\* ones followed by zeros.  The result is non-increasing and two positions
\* differ by at most 1.
C2_LeftHeavyNearEven ==
    pc = "dist_ret" =>
        /\ DOMAIN ret_counts = 1..arg_num_bases
        /\ arg_total >= arg_num_bases =>
              \A i \in 1..arg_num_bases :
                  ret_counts[i] = (arg_total \div arg_num_bases)
                      + (IF i - 1 < arg_total % arg_num_bases THEN 1 ELSE 0)
        /\ arg_total < arg_num_bases =>
              \A i \in 1..arg_num_bases :
                  ret_counts[i] = (IF i <= arg_total THEN 1 ELSE 0)
        /\ \A i, j \in 1..arg_num_bases :
              i < j => /\ ret_counts[i] >= ret_counts[j]
                       /\ ret_counts[i] - ret_counts[j] <= 1

C2_Witness ==
    /\ pc = "dist_ret" /\ arg_total = 7 /\ arg_num_bases = 3
    /\ ret_counts = <<3, 2, 2>>

---------------------------------------------------------------------------
(* Properties of build_suppression (SpecTactic).                           *)

MainCell(field) == Cell(arg_row, arg_prefix[1], field)
AltCell(field) == Cell(arg_row, arg_prefix[2], field)
HasAlternative == "alternative" \in DOMAIN ret_tactic

\* The four conditions of the alternative-presence test, as the
\* specification words them.
PresenceA ==
    \E f \in {"select_poi", "track_poi", "suppress", "change_condition"} :
        safe_str(AltCell(f)) # None
PresenceB == ~isna(AltCell("threshold"))
PresenceC == safe_str(MainCell("change_condition")) # None
PresenceD == ~isna(MainCell("threshold"))

\* C3: the result has the key "alternative" if and only if (a), (b), (c) or
\* (d) holds, a threshold counting as present for any value including 0;
\* when none holds the result is exactly {"main": ...}.
C3_AlternativeIffPresence ==
    pc = "supp_ret" =>
        /\ HasAlternative <=> (PresenceA \/ PresenceB \/ PresenceC \/ PresenceD)
        /\ ~(PresenceA \/ PresenceB \/ PresenceC \/ PresenceD)
              => DOMAIN ret_tactic = {"main"}

\* C4: every emitted "alternative" object has a "change_condition" or a
\* "threshold" key: it is emitted only if a change condition or a threshold
\* is present on the alternative- or main-prefixed fields.
C4_AlternativeHasCondOrThreshold ==
    (pc = "supp_ret" /\ HasAlternative) =>
        /\ {"change_condition", "threshold"}
              \cap DOMAIN ret_tactic["alternative"] # {}
        /\ \/ safe_str(AltCell("change_condition")) # None
           \/ safe_str(MainCell("change_condition")) # None
           \/ PresenceB
           \/ PresenceD

\* C5: an "alternative" is emitted only when a change condition exists on
\* the alternative-prefixed field or, failing that, on the main-prefixed one,
\* so every emitted "alternative" object has a "change_condition" key.
C5_AlternativeOnlyWithChangeCondition ==
    (pc = "supp_ret" /\ HasAlternative) =>
        /\ \/ safe_str(AltCell("change_condition")) # None
           \/ safe_str(MainCell("change_condition")) # None
        /\ "change_condition" \in DOMAIN ret_tactic["alternative"]

\* The main tactic's select_poi is "vegetation" in some spelling of case.
MainSelectIsVegetation ==
    safe_str(MainCell("select_poi"))
        \in {Str("vegetation"), Str("Vegetation"), Str("VEGETATION")}

\* C6: an emitted alternative_tactic has all three keys; select_poi is the
\* alternative-prefixed value if non-blank, else the flip of the main
\* select_poi compared case-insensitively ("vegetation" or "Vegetation" ->
\* "water", "water" or "WATER" or anything else or absent -> "vegetation");
\* track_poi and suppress are the alternative-prefixed value if non-blank,
\* else "follow_firefront" and "direct"; the main track_poi and suppress
\* are never copied.
C6_AlternativeTacticDefaults ==
    (pc = "supp_ret" /\ HasAlternative) =>
        LET at == ret_tactic["alternative"]["alternative_tactic"]
        IN  /\ DOMAIN at = {"select_poi", "track_poi", "suppress"}
            /\ at["select_poi"] =
                  (IF safe_str(AltCell("select_poi")) # None
                   THEN safe_str(AltCell("select_poi"))
                   ELSE IF MainSelectIsVegetation THEN Str("water")
                   ELSE Str("vegetation"))
            /\ at["track_poi"] =
                  (IF safe_str(AltCell("track_poi")) # None
                   THEN safe_str(AltCell("track_poi"))
                   ELSE Str("follow_firefront"))
            /\ at["suppress"] =
                  (IF safe_str(AltCell("suppress")) # None
                   THEN safe_str(AltCell("suppress"))
                   ELSE Str("direct"))

C6_Witness ==
    /\ pc = "supp_ret" /\ HasAlternative
    /\ MainCell("select_poi") = Str("Vegetation")
    /\ MainCell("track_poi") = Str("circle")
    /\ MainCell("suppress") = Str("indirect")
    /\ MainCell("change_condition") = Str("wind_shift")
    /\ \A f \in Fields : AltCell(f) = NaN
    /\ ret_tactic["alternative"]["alternative_tactic"] =
          [select_poi |-> Str("water"),
           track_poi |-> Str("follow_firefront"),
           suppress |-> Str("direct")]

\* The threshold an alternative object must carry for a present cell: the
\* cell's value, as an integer when it is a number with no fractional part.
EmittedAs(cell, val) ==
    /\ val.n = cell.n /\ val.s = cell.s
    /\ IF cell.k \in {"int", "float"} /\ cell.n % 10 = 0
       THEN val.k = "int" ELSE val.k = cell.k

\* C10: in an emitted "alternative" object the alternative-prefixed fields
\* win: change_condition is the alternative-prefixed value if non-None, else
\* the main-prefixed one, and is omitted only if both are None; threshold is
\* the alternative-prefixed value if present (0 included), else the
\* main-prefixed one if present, and is omitted only if neither is present;
\* an exactly integral threshold is emitted as an integer.
C10_AlternativePrecedence ==
    (pc = "supp_ret" /\ HasAlternative) =>
        LET ao == ret_tactic["alternative"]
            ac == safe_str(AltCell("change_condition"))
            mc == safe_str(MainCell("change_condition"))
            ah == AltCell("threshold")
            mh == MainCell("threshold")
        IN  /\ IF ac # None
               THEN "change_condition" \in DOMAIN ao /\ ao["change_condition"] = ac
               ELSE IF mc # None
               THEN "change_condition" \in DOMAIN ao /\ ao["change_condition"] = mc
               ELSE "change_condition" \notin DOMAIN ao
            /\ IF ~isna(ah)
               THEN "threshold" \in DOMAIN ao /\ EmittedAs(ah, ao["threshold"])
               ELSE IF ~isna(mh)
               THEN "threshold" \in DOMAIN ao /\ EmittedAs(mh, ao["threshold"])
               ELSE "threshold" \notin DOMAIN ao

C10_Witness ==
    /\ pc = "supp_ret" /\ HasAlternative
    /\ AltCell("change_condition") = NaN
    /\ MainCell("change_condition") = Str("wind_shift")
    /\ AltCell("threshold") = FloatV(0)
    /\ MainCell("threshold") = FloatV(5)
    /\ ret_tactic["alternative"]["change_condition"] = Str("wind_shift")
    /\ ret_tactic["alternative"]["threshold"] = IntV(0)

---------------------------------------------------------------------------
(* Properties of main() (Spec).                                            *)

\* A group's count as the worksheet states it: a blank cell counts as 0.
StatedCount(row, col) == IF isna(row[col]) THEN 0 ELSE row[col].n \div 10

\* The processed rows that must yield a scenario.
YieldsScenario(i) ==
    /\ ~scenario_blank(df[i])
    /\ \/ StatedCount(df[i], "first group") > 0
       \/ StatedCount(df[i], "second group") > 0
ProcessedRows == 1..(idx - 1)

IsGroupEntry(e, count, main_prefix, alt_prefix, row) ==
    /\ e["file_name"] = AIRCRAFT_FILE
    /\ Len(e["agents_per_base"]) = NUM_BASES
    /\ SumSeq(e["agents_per_base"]) = count
    /\ e["suppression_tactic"] = build_suppression(main_prefix, alt_prefix, row)

\* C7: a sheet row whose scenario cell is blank as read contributes no
\* scenario to the written "agents" list, whatever rows precede it.
C7_BlankScenarioRowContributesNothing ==
    pc = "done" =>
        \A k \in DOMAIN out_file["agents"] : ~raw_blank[origin[k]]

\* C8: the "agents" list holds, in row order, exactly one scenario per
\* processed record with a non-blank scenario id and a positive group count;
\* each scenario has 1 or 2 entries, one per group with a positive count,
\* the first group's before the second's, and each entry's agents_per_base
\* has NUM_BASES values that sum to the group's count.
C8_ScenariosMatchRecords ==
    pc \in {"loop", "done"} =>
        /\ Len(scenarios) = Cardinality({i \in ProcessedRows : YieldsScenario(i)})
        /\ Len(origin) = Len(scenarios)
        /\ \A k \in DOMAIN origin :
              origin[k] \in ProcessedRows /\ YieldsScenario(origin[k])
        /\ \A k, l \in DOMAIN origin : k < l => origin[k] < origin[l]
        /\ \A k \in DOMAIN scenarios :
              LET row == df[origin[k]]
                  c1 == StatedCount(row, "first group")
                  c2 == StatedCount(row, "second group")
                  s == scenarios[k]
              IN  /\ Len(s) \in {1, 2}
                  /\ Len(s) = (IF c1 > 0 THEN 1 ELSE 0) + (IF c2 > 0 THEN 1 ELSE 0)
                  /\ c1 > 0 => IsGroupEntry(s[1], c1, "g1_", "g1a_", row)
                  /\ c2 > 0 => IsGroupEntry(s[Len(s)], c2, "g2_", "g2a_", row)
        /\ pc = "done" => out_file["agents"] = scenarios

C8_Witness ==
    /\ pc = "done" /\ Len(df) = 2
    /\ df[1]["scenario"] = Str("S1") /\ df[2]["scenario"] = Str("S1")
    /\ df[1]["first group"] = IntV(0) /\ df[1]["second group"] = IntV(0)
    /\ df[2]["first group"] = IntV(3) /\ df[2]["second group"] = FloatV(10)
    /\ Len(out_file["agents"]) = 1 /\ origin = <<2>>
    /\ out_file["agents"][1][1]["agents_per_base"] = <<2, 1>>
    /\ out_file["agents"][1][2]["agents_per_base"] = <<1, 0>>

\* C9: OUTPUT_JSON is written at most once, and only after the sheet was
\* loaded and every record was processed; a missing workbook or a sheet that
\* cannot be opened is reported on stderr and the run ends with the output
\* never opened; an exception raised while a row is processed leaves no
\* output either.
C9_OutputOnlyAfterFullPass ==
    /\ writes <= 1
    /\ (writes = 0) <=> (out_file = NotOpened)
    /\ writes = 1 => /\ pc = "done" /\ excel_exists /\ sheet_ok
                     /\ idx = Len(df) + 1
    /\ (pc # "start" /\ ~(excel_exists /\ sheet_ok)) =>
          /\ pc = "returned" /\ stderr # <<>> /\ writes = 0
          /\ ~ENABLED Next
    /\ pc = "crashed" => writes = 0 /\ ~ENABLED Next

C9_Witness ==
    /\ pc = "crashed" /\ idx = 2 /\ Len(scenarios) = 1
    /\ out_file = NotOpened /\ writes = 0

====
